---- MODULE Spec2Model ----
(***************************************************************************)
(* A model of two components of datapane's python client:                  *)
(*   - app/json_rpc.py : the JSON-RPC dispatcher and its message schema    *)
(*   - view/visitors.py: the PreProcess visitor over a tree of blocks      *)
(* Each component has its own specification (SpecRpc, SpecView); the       *)
(* variables of the other component stay unchanged.                        *)
(***************************************************************************)
EXTENDS Integers, Sequences, FiniteSets, TLC

VARIABLES
    \* ---- json_rpc.py
    request,              \* bt.request.json, the parsed request body
    global_rpc_functions, \* keys of the process-wide registry
    entries,              \* keys of s_s.entries, the session's table
    response,             \* what dispatch gave back to its caller
    invoked,              \* the call dispatch made, if any
    behaviour,            \* what the called function did
    rpc_pc,               \* "ready" before dispatch ran, "done" after
    \* ---- visitors.py
    heap,                 \* every block object, by identity (1..Len(heap))
    original,             \* the blocks of the view as they were built
    current_state,        \* PreProcess.current_state
    current_text,         \* PreProcess.current_text
    in_collapsible_group, \* PreProcess.in_collapsible_group
    stack,                \* the active visit(ContainerBlock) calls
    roots,                \* PreProcess.root of each finished run
    view_pc,              \* "building", "visiting", "done"
    visitor,              \* the class of the visitor at work, "" for PreProcess
    collected,            \* CollectFunctions.entries
    indent,               \* PrettyPrinter.indent
    lines                 \* what PrettyPrinter printed, line by line

rpc_vars ==
    <<request, global_rpc_functions, entries, response, invoked, behaviour, rpc_pc>>

view_vars ==
    <<heap, original, current_state, current_text, in_collapsible_group, stack,
      roots, view_pc>>

walk_vars == <<visitor, collected, indent, lines>>

vars == <<rpc_vars, view_vars, walk_vars>>

(***************************************************************************)
(* Values.  Python's None / an absent Optional is the empty sequence, a    *)
(* present value v is <<v>>.  Strings that the code inspects character by  *)
(* character (method names) are sequences of one-character strings.        *)
(***************************************************************************)
None == <<>>
Some(x) == <<x>>

\* A JSON / python value: its type tag and its text.
Val(t, v) == [t |-> t, v |-> v]
Absent == Val("absent", "")
Null == Val("null", "")

\* ---- characters of a method name
WordChars == {"a", "d", "f", "g", "p", "x", "_", "1"}
Whitespace == {" "}

RECURSIVE lstrip(_)
lstrip(s) == IF s # <<>> /\ Head(s) \in Whitespace THEN lstrip(Tail(s)) ELSE s

RECURSIVE rstrip(_)
rstrip(s) ==
    IF s # <<>> /\ s[Len(s)] \in Whitespace
    THEN rstrip(SubSeq(s, 1, Len(s) - 1))
    ELSE s

\* constr(strip_whitespace=True)
strip(s) == rstrip(lstrip(s))

\* str.startswith
startswith(s, prefix) ==
    /\ Len(s) >= Len(prefix)
    /\ SubSeq(s, 1, Len(prefix)) = prefix

\* the regex ^[\w.]+$ on a stripped string
regex_match(s) ==
    /\ Len(s) >= 1
    /\ \A i \in 1..Len(s) : s[i] \in WordChars \cup {"."}

min_length == 3

DP_PREFIX == <<"d", "p", ".">>
APP_PREFIX == <<"a", "p", "p", ".">>

(***************************************************************************)
(* json_rpc.py: message schema                                             *)
(***************************************************************************)

\* RPC_JSON = Union[str, int, float, bool, None, Mapping, List] as pydantic
\* validates it: None stays None, every other value is tried against the
\* member types from left to right and the first that accepts it wins.  str
\* accepts (and converts) int, float and bool, so only str, mappings and
\* lists come out as they went in.  A value of no member type is refused.
RPC_JSON(x) ==
    CASE x.t = "null" -> [ok |-> TRUE, v |-> x]
      [] x.t = "str" -> [ok |-> TRUE, v |-> x]
      [] x.t \in {"int", "float", "bool"} -> [ok |-> TRUE, v |-> Val("str", x.v)]
      [] x.t \in {"map", "list"} -> [ok |-> TRUE, v |-> x]
      [] OTHER -> [ok |-> FALSE, v |-> x]

\* The @validator("jsonrpc") of RpcRequest.
is_v2(v) == v = "2.0"

\* id_valid without strict=True: a bool counts as the integer it equals.
id_valid_not_strict(i) ==
    i.t \in {"absent", "null"} \/ (i.t \in {"int", "bool"} /\ i.n > 0)

\* conint(strict=True, gt=0), Optional: absent and null give None.
id_valid(i) == i.t \in {"absent", "null"} \/ (i.t = "int" /\ i.n > 0)

\* constr(strip_whitespace=True, regex=..., min_length=3), required.
method_valid(m) ==
    /\ m.t = "str"
    /\ Len(strip(m.s)) >= min_length
    /\ regex_match(strip(m.s))

\* Optional[Union[List, Dict]] = []
params_valid(p) == p.t \in {"absent", "null", "list", "dict"}

jsonrpc_valid(j) == j.t = "str" /\ is_v2(j.v)

\* RpcRequest.parse_obj: ok is FALSE on a ValidationError.
parse_obj(body) ==
    [ok |-> /\ jsonrpc_valid(body.jsonrpc)
            /\ id_valid(body.id)
            /\ method_valid(body.method)
            /\ params_valid(body.params),
     id |-> IF body.id.t = "int" THEN Some(body.id.n) ELSE None,
     method |-> strip(body.method.s),
     params |-> IF body.params.t = "absent"
                THEN [t |-> "list", list |-> <<>>, dict |-> {}]
                ELSE body.params]

\* is_method_call that takes every request for a method call.
is_method_call_always(json_req) == TRUE

\* RpcRequest.is_method_call
is_method_call(json_req) == json_req.id # None

\* What dispatch can hand back: a dict (env "success" / "error") or None
\* (env "none").  vkey is the name of the version field of the dict.
NoEnvelope ==
    [env |-> "none", vkey |-> "", version |-> "", id |-> None,
     result |-> Null, code |-> 0, message |-> <<>>, data |-> None]

\* RpcResponse(id=.., result=..).dict(); ok is FALSE on a ValidationError.
RpcResponse(id, res) ==
    [ok |-> RPC_JSON(res).ok,
     dict |-> [NoEnvelope EXCEPT !.env = "success", !.vkey = "jsonrpc",
                                 !.version = "2.0", !.id = id,
                                 !.result = RPC_JSON(res).v]]

\* An exception object.  type is the python class; the other fields are
\* those of RPCException and are unused for the other classes.
Exc(type, code, msg, id, data) ==
    [type |-> type, code |-> code, msg |-> msg, id |-> id, data |-> data]

NoExc == Exc("", 0, <<>>, None, None)

RPCException(code, msg, id) == Exc("RPCException", code, msg, id, None)

\* RPCException.as_rpc().dict(): RpcError with the differently spelled
\* version field, data validated as Optional[RPC_JSON].
as_rpc(e) ==
    [NoEnvelope EXCEPT !.env = "error", !.vkey = "json_rpc", !.version = "2.0",
                       !.id = e.id, !.code = e.code, !.message = e.msg,
                       !.data = IF e.data = None THEN None
                                ELSE Some(RPC_JSON(e.data[1]).v)]

INVALID_REQUEST == -32600
METHOD_NOT_FOUND == -32601
INTERNAL_ERROR == -32603

(***************************************************************************)
(* json_rpc.py: the dispatcher                                             *)
(***************************************************************************)

\* The call made by _dispatch: f is "none", "global" (a function of
\* global_rpc_functions, called with g_s, s_s, *args, **kwargs) or
\* "apply_ref" (called with g_s, s_s, ref, params=kwargs).
NoCall == [f |-> "none", name |-> <<>>, args |-> <<>>, kwargs |-> {}]

\* The result of running a python function: it returns ret or raises exc.
Return(ret, call) == [out |-> "return", ret |-> ret, exc |-> NoExc, call |-> call]
Raise(exc, call) == [out |-> "raise", ret |-> NoEnvelope, exc |-> exc, call |-> call]

\* lines 95-101: args / kwargs from params.  params None has no .copy().
process_args(params) ==
    CASE params.t = "list" -> [ok |-> TRUE, args |-> params.list, kwargs |-> {}]
      [] params.t = "dict" -> [ok |-> TRUE, args |-> <<>>, kwargs |-> params.dict]
      [] OTHER -> [ok |-> FALSE, args |-> <<>>, kwargs |-> {}]

\* lines 109-119: which function the method name resolves to.
resolve(f_name, globals, table) ==
    CASE startswith(f_name, DP_PREFIX) /\ f_name \in globals -> "global"
      [] startswith(f_name, APP_PREFIX) /\ f_name \in table -> "apply_ref"
      [] OTHER -> "none"

\* internal_error that hands the failure's text to the caller as data.
internal_error_leaking(_id, e) ==
    Exc("RPCException", INTERNAL_ERROR, <<"Internal Error">>, _id,
        Some(Val("str", "traceback")))

\* line 125: raise RPCException(-32603, "Internal Error", _id) from e
internal_error(_id, e) == RPCException(INTERNAL_ERROR, <<"Internal Error">>, _id)

\* The call that hands the positional values to apply_ref as well.
call_of_forwarding_args(how, f_name, a) ==
    [f |-> how, name |-> f_name, args |-> a.args, kwargs |-> a.kwargs]

\* lines 112 and 117: f(g_s, s_s, *args, **kwargs) for a global function,
\* apply_ref(g_s, s_s, ref, params=kwargs) for an app function.
call_of(how, f_name, a) ==
    [f |-> how, name |-> f_name,
     args |-> IF how = "global" THEN a.args ELSE <<>>,
     kwargs |-> a.kwargs]

\* lines 104-128, given a parsed request and its args: beh is what the
\* resolved function does when it is called.
method_call(json_req, a, beh, globals, table) ==
    LET f_name == json_req.method
        _id == json_req.id
        how == resolve(f_name, globals, table)
        call == call_of(how, f_name, a)
    IN  IF how = "none"
        THEN Raise(RPCException(METHOD_NOT_FOUND,
                      <<"Method '">> \o f_name \o <<"' not found">>, _id), NoCall)
        ELSE IF beh.b = "raises"
        THEN CASE beh.exc.type = "RPCException" -> Raise(beh.exc, call)
               [] beh.exc.type = "Exception" -> Raise(internal_error(_id, beh.exc), call)
               [] OTHER -> Raise(beh.exc, call)
        ELSE IF RpcResponse(_id, beh.v).ok
        THEN Return(RpcResponse(_id, beh.v).dict, call)
        ELSE Raise(internal_error(_id, NoExc), call)

_dispatch(body, beh, globals, table) ==
    LET json_req == parse_obj(body)
        a == process_args(json_req.params)
    IN  IF ~json_req.ok
        THEN Raise(RPCException(INVALID_REQUEST, <<"Invalid Request">>, None), NoCall)
        ELSE IF ~a.ok
        THEN Raise(Exc("AttributeError", 0, <<>>, None, None), NoCall)
        ELSE IF is_method_call(json_req)
        THEN method_call(json_req, a, beh, globals, table)
        ELSE Return(NoEnvelope, NoCall)

\* dispatch: only an RPCException is turned into an error envelope.
dispatch_result(body, beh, globals, table) ==
    LET r == _dispatch(body, beh, globals, table)
    IN  IF r.out = "raise" /\ r.exc.type = "RPCException"
        THEN Return(as_rpc(r.exc), r.call)
        ELSE r

(***************************************************************************)
(* json_rpc.py: requests, registries and function behaviours drawn from    *)
(* bounded sets                                                            *)
(***************************************************************************)
MaxId == 1

DP_F == <<"d", "p", ".", "f">>
APP_G == <<"a", "p", "p", ".", "g">>

Methods ==
    { DP_F, APP_G,
      <<" ", "d", "p", ".", "f">>,      \* stripped to dp.f
      <<"d", "p">>,                     \* too short
      <<"d", "p", "-", "f">>,           \* a character outside [\w.]
      <<"x", ".", "f">> }               \* well formed, no known prefix

JsonRpcFields == {Absent, Val("str", "2.0"), Val("str", "1.0")}

IdFields ==
    {[t |-> "absent", n |-> 0], [t |-> "null", n |-> 0],
     [t |-> "str", n |-> 1], [t |-> "bool", n |-> 1]}
    \cup {[t |-> "int", n |-> n] : n \in -1..MaxId}

MethodFields ==
    {[t |-> "absent", s |-> <<>>]} \cup {[t |-> "str", s |-> m] : m \in Methods}

ParamsFields ==
    {[t |-> "absent", list |-> <<>>, dict |-> {}],
     [t |-> "null", list |-> <<>>, dict |-> {}],
     [t |-> "other", list |-> <<>>, dict |-> {}],
     [t |-> "list", list |-> <<>>, dict |-> {}],
     [t |-> "list", list |-> <<"1", "2">>, dict |-> {}],
     [t |-> "dict", list |-> <<>>, dict |-> {}],
     [t |-> "dict", list |-> <<>>, dict |-> {<<"k", "1">>}]}

Bodies ==
    [jsonrpc : JsonRpcFields, id : IdFields, method : MethodFields,
     params : ParamsFields]

Registries == SUBSET {DP_F, APP_G}

\* Values a function can return: the protocol-JSON values and one that is
\* not (an arbitrary python object).
JsonValues ==
    {Val("str", "pong"), Val("int", "1"), Val("float", "1.5"),
     Val("bool", "True"), Null, Val("map", "{}"), Val("list", "[]")}

ReturnValues == JsonValues \cup {Val("object", "<object>")}

\* Exceptions a function can raise: an ordinary Exception, an RPCException
\* of its own making, or a BaseException that is no Exception (SystemExit).
RaisedExceptions ==
    {Exc("Exception", 0, <<"secret">>, None, None),
     Exc("BaseException", 0, <<>>, None, None)}
    \cup {Exc("RPCException", -32000, <<"app error">>, i, d) :
            i \in {None, Some(MaxId + 1)}, d \in {None, Some(Val("str", "detail"))}}

Behaviours ==
    {[b |-> "returns", v |-> v, exc |-> NoExc] : v \in ReturnValues}
    \cup {[b |-> "raises", v |-> Null, exc |-> e] : e \in RaisedExceptions}

NoBehaviour == [b |-> "none", v |-> Null, exc |-> NoExc]

Pending == [out |-> "pending", ret |-> NoEnvelope, exc |-> NoExc]

InitRpc ==
    /\ request \in Bodies
    /\ global_rpc_functions \in Registries
    /\ entries \in Registries
    /\ response = Pending
    /\ invoked = NoCall
    /\ behaviour = NoBehaviour
    /\ rpc_pc = "ready"
    /\ heap = <<>>
    /\ original = <<>>
    /\ current_state = <<>>
    /\ current_text = <<>>
    /\ in_collapsible_group = FALSE
    /\ stack = <<>>
    /\ roots = <<>>
    /\ view_pc = "idle"
    /\ visitor = ""
    /\ collected = <<>>
    /\ indent = 1
    /\ lines = <<>>

\* One call of dispatch(g_s) on the request at hand.
dispatch ==
    /\ rpc_pc = "ready"
    /\ \E beh \in Behaviours :
         LET r == dispatch_result(request, beh, global_rpc_functions, entries)
         IN  /\ response' = [out |-> r.out, ret |-> r.ret, exc |-> r.exc]
             /\ invoked' = r.call
             /\ behaviour' = IF r.call.f = "none" THEN NoBehaviour ELSE beh
    /\ rpc_pc' = "done"
    /\ UNCHANGED <<request, global_rpc_functions, entries>>
    /\ UNCHANGED view_vars
    /\ UNCHANGED walk_vars

NextRpc == dispatch

SpecRpc == InitRpc /\ [][NextRpc]_vars

(***************************************************************************)
(* json_rpc.py: properties                                                 *)
(***************************************************************************)
Done == rpc_pc = "done"

\* The envelope dispatch returned, NoEnvelope when it returned None or
\* raised.
Returned == response.ret

IsErrorEnvelope(code, msg, id) ==
    /\ response.out = "return"
    /\ Returned.env = "error"
    /\ Returned.code = code
    /\ Returned.message = msg
    /\ Returned.id = id
    /\ Returned.data = None

RequestId == IF request.id.t = "int" THEN Some(request.id.n) ELSE None

\* A request that passes validation and carries an id.
ValidMethodCall == parse_obj(request).ok /\ request.id.t = "int"

\* C1: dispatch always finishes by returning a success envelope, an error
\* envelope or nothing; no exception escapes it.
C1_NoExceptionEscapes ==
    Done => /\ response.out = "return"
            /\ Returned.env \in {"success", "error", "none"}

\* C2 as stated: a request body without an id is never answered, whatever
\* its other fields: dispatch hands back no envelope.
C2_NotificationNeverAnswered ==
    (Done /\ request.id.t = "absent") => Returned.env = "none"

\* C2 amended: a body without an id that passes validation gets no envelope
\* and no function is called; one that fails validation gets the Invalid
\* Request envelope with no id.
C2_ValidNotificationNotAnswered ==
    (Done /\ request.id.t = "absent") =>
        IF parse_obj(request).ok
        THEN Returned.env = "none" /\ invoked = NoCall
        ELSE IsErrorEnvelope(INVALID_REQUEST, <<"Invalid Request">>, None)

C2_Witness ==
    /\ Done
    /\ request.id.t = "absent"
    /\ parse_obj(request).ok
    /\ request.method.s = DP_F
    /\ DP_F \in global_rpc_functions
    /\ response.out = "return"
    /\ Returned.env = "none"

\* C3 as stated: whenever the resolved function raises, the caller gets the
\* Internal Error envelope with the request's id and nothing else.
C3_HandlerRaisesInternalError ==
    (Done /\ behaviour.b = "raises") =>
        IsErrorEnvelope(INTERNAL_ERROR, <<"Internal Error">>, RequestId)

\* C3 amended: whenever the resolved function raises an Exception that is
\* not an RPCException, the caller gets the Internal Error envelope with the
\* request's id, message "Internal Error" and no data.
C3_OrdinaryExceptionInternalError ==
    (Done /\ behaviour.b = "raises" /\ behaviour.exc.type = "Exception") =>
        IsErrorEnvelope(INTERNAL_ERROR, <<"Internal Error">>, RequestId)

C3_Witness ==
    /\ Done
    /\ invoked.f = "apply_ref"
    /\ behaviour.b = "raises"
    /\ behaviour.exc.type = "Exception"
    /\ Returned.code = INTERNAL_ERROR
    /\ Returned.id = Some(1)

\* The ways a body fails validation, read off its fields: jsonrpc is not
\* the string "2.0", id is given and is not a strictly positive integer,
\* method is missing or (trimmed) too short or off pattern, params is a
\* value that is neither null, a list nor a mapping.
FailsValidation(body) ==
    \/ body.jsonrpc # Val("str", "2.0")
    \/ /\ body.id.t \notin {"absent", "null"}
       /\ ~(body.id.t = "int" /\ body.id.n >= 1)
    \/ body.method.t # "str"
    \/ Len(strip(body.method.s)) < 3
    \/ \E i \in 1..Len(strip(body.method.s)) :
           strip(body.method.s)[i] \notin WordChars \cup {"."}
    \/ body.params.t = "other"

C5_MethodNotFound ==
    (/\ Done
     /\ ValidMethodCall
     /\ resolve(parse_obj(request).method, global_rpc_functions, entries) = "none")
    => /\ response.out = "return"
       /\ Returned.env = "error"
       /\ Returned.code = METHOD_NOT_FOUND
       /\ Returned.id = RequestId
       /\ invoked = NoCall

\* C6: when the resolved function returns a protocol-JSON value v, the
\* caller gets the success envelope with jsonrpc "2.0", the request's id and
\* result v.
C6_SuccessEchoesResult ==
    (Done /\ behaviour.b = "returns" /\ behaviour.v \in JsonValues) =>
        /\ response.out = "return"
        /\ Returned.env = "success"
        /\ Returned.vkey = "jsonrpc"
        /\ Returned.version = "2.0"
        /\ Returned.id = RequestId
        /\ Returned.result = behaviour.v

\* The request's method as the dispatcher sees it.
Method == parse_obj(request).method

RoutedGlobally ==
    /\ ValidMethodCall
    /\ startswith(Method, DP_PREFIX)
    /\ Method \in global_rpc_functions

RoutedToApp ==
    /\ ValidMethodCall
    /\ ~RoutedGlobally
    /\ startswith(Method, APP_PREFIX)
    /\ Method \in entries

\* C13: one dispatch invokes at most one function; a global function is
\* invoked if and only if the request is a valid method call whose method
\* starts with "dp." and is in the global registry, and then with the
\* positional list and the keyword map; apply_ref is invoked if and only if
\* the request is a valid method call not routed globally whose method
\* starts with "app." and is in the session entries; nothing is invoked
\* for a notification or an invalid request.
C13_RoutingExclusive ==
    Done =>
        /\ invoked.f \in {"none", "global", "apply_ref"}
        /\ (invoked.f = "global") <=> RoutedGlobally
        /\ (invoked.f = "apply_ref") <=> RoutedToApp
        /\ invoked.f = "global" =>
              /\ invoked.name = Method
              /\ invoked.args = parse_obj(request).params.list
              /\ invoked.kwargs = parse_obj(request).params.dict
        /\ ~ValidMethodCall => invoked = NoCall

\* C14: on the app path apply_ref gets the keyword map only: the mapping
\* itself when params is a mapping, the empty mapping when params is a
\* list, whose values go nowhere; the call is made all the same and a
\* protocol-JSON return value is answered with a success envelope.
C14_AppGetsKeywordsOnly ==
    (/\ Done
     /\ RoutedToApp
     /\ parse_obj(request).params.t \in {"list", "dict"})
    => /\ invoked.f = "apply_ref"
       /\ invoked.name = Method
       /\ invoked.args = <<>>
       /\ invoked.kwargs = IF parse_obj(request).params.t = "dict"
                           THEN request.params.dict ELSE {}
       /\ (behaviour.b = "returns" /\ behaviour.v \in JsonValues) =>
              /\ response.out = "return"
              /\ Returned.env = "success"
              /\ Returned.id = RequestId

\* params is the list ["1", "2"]: apply_ref is called with no keywords and
\* the caller gets a success envelope.
C14_Witness ==
    /\ Done
    /\ RoutedToApp
    /\ request.params.t = "list"
    /\ request.params.list = <<"1", "2">>
    /\ invoked.f = "apply_ref"
    /\ invoked.kwargs = {}
    /\ behaviour.v = Val("str", "pong")
    /\ Returned.env = "success"

(***************************************************************************)
(* visitors.py: blocks                                                     *)
(*                                                                         *)
(* A block is an object of the heap, named by its index.  kind is its      *)
(* class: "View", "Group" and "Select" are ContainerBlocks, "Text" is      *)
(* bk.Text, "Elem" any other BaseElement.  A text's content is a sequence  *)
(* of tokens; the token "\n\n" is a double line break.                     *)
(***************************************************************************)
Block(kind, name, content, columns, blocks) ==
    [kind |-> kind, name |-> name, content |-> content, columns |-> columns,
     blocks |-> blocks]

isContainerBlock(b) == b.kind \in {"View", "Group", "Select"}
isText(b) == b.kind = "Text"
isUnnamedText(b) == b.kind = "Text" /\ b.name = None

\* copy(b) without the copy: the same object again.
copy_same_object(h, o) == [heap |-> h, oid |-> o]

\* copy.copy(b): a new object with the same field values.
copy(h, o) == [heap |-> Append(h, h[o]), oid |-> Len(h) + 1]

\* bk.Text(new_text): a new unnamed Text.
Text(h, new_text) ==
    [heap |-> Append(h, Block("Text", None, new_text, 0, <<>>)),
     oid |-> Len(h) + 1]

\* A join that keeps the last content only.
join_keeps_last(contents) ==
    IF contents = <<>> THEN <<>> ELSE contents[Len(contents)]

\* "\n\n".join(contents)
RECURSIVE join(_)
join(contents) ==
    IF contents = <<>> THEN <<>>
    ELSE IF Len(contents) = 1 THEN contents[1]
    ELSE contents[1] \o <<"\n\n">> \o join(Tail(contents))

(***************************************************************************)
(* visitors.py: PreProcess.  m is the heap together with the visitor's     *)
(* fields; each operator gives m as the method leaves it.                  *)
(***************************************************************************)
Machine(h, cs, ct, icg) ==
    [heap |-> h, current_state |-> cs, current_text |-> ct,
     in_collapsible_group |-> icg]

\* line 124: current_state.extend(copy(t1) for t1 in current_text)
RECURSIVE extend_copies(_, _)
extend_copies(m, texts) ==
    IF texts = <<>> THEN m
    ELSE LET c == copy(m.heap, Head(texts))
         IN  extend_copies([m EXCEPT !.heap = c.heap,
                                     !.current_state = Append(@, c.oid)],
                           Tail(texts))

\* PreProcess.merge_text
merge_text(m) ==
    IF m.current_text = <<>> THEN m
    ELSE IF m.in_collapsible_group
    THEN LET t1 == Text(m.heap, join([i \in 1..Len(m.current_text) |->
                                         m.heap[m.current_text[i]].content]))
         IN  [m EXCEPT !.heap = t1.heap,
                       !.current_state = Append(@, t1.oid),
                       !.current_text = <<>>]
    ELSE [extend_copies(m, m.current_text) EXCEPT !.current_text = <<>>]

\* visit(b: BaseElement) without the flush of the pending texts.
visit_BaseElement_without_flush(m, b) ==
    LET c == copy(m.heap, b)
    IN  [m EXCEPT !.heap = c.heap, !.current_state = Append(@, c.oid)]

\* PreProcess.visit(b: BaseElement)
visit_BaseElement(m, b) ==
    LET m1 == merge_text(m)
        c == copy(m1.heap, b)
    IN  [m1 EXCEPT !.heap = c.heap, !.current_state = Append(@, c.oid)]

\* visit_Text that buffers every Text, named or not.
visit_Text_ignores_name(m, b) == [m EXCEPT !.current_text = Append(@, b)]

\* PreProcess.visit(b: bk.Text)
visit_Text(m, b) ==
    IF m.heap[b].name = None
    THEN [m EXCEPT !.current_text = Append(@, b)]
    ELSE LET m1 == merge_text(m)
             c == copy(m1.heap, b)
         IN  [m1 EXCEPT !.heap = c.heap, !.current_state = Append(@, c.oid)]

\* line 112
collapsible(b) == b.kind = "View" \/ (b.kind = "Group" /\ b.columns = 1)

\* PreProcess.visit(b: ContainerBlock) up to the traversal: merge_text, the
\* entry of fresh_state (x is kept by the caller), the flag.
visit_ContainerBlock_enter(m, b) ==
    LET m1 == merge_text(m)
    IN  [m1 EXCEPT !.current_state = <<>>,
                   !.in_collapsible_group = collapsible(m1.heap[b])]

\* The end of visit(b: ContainerBlock) with a fresh_state that does not
\* put the saved list back.
visit_ContainerBlock_exit_keeps_scope(m, b, x) ==
    LET m1 == merge_text(m)
        b1 == copy(m1.heap, b)
    IN  [m1 EXCEPT !.heap = [b1.heap EXCEPT ![b1.oid].blocks = m1.current_state],
                   !.current_state = Append(@, b1.oid)]

\* PreProcess.visit(b: ContainerBlock) after the traversal: merge_text and
\* the exit of fresh_state, x being the list saved at entry.
visit_ContainerBlock_exit(m, b, x) ==
    LET m1 == merge_text(m)
        b1 == copy(m1.heap, b)
    IN  [m1 EXCEPT !.heap = [b1.heap EXCEPT ![b1.oid].blocks = m1.current_state],
                   !.current_state = Append(x, b1.oid)]

(***************************************************************************)
(* visitors.py: the views PreProcess is run on, drawn from a bounded set   *)
(***************************************************************************)
MaxNodes == 5

\* The content of the Text added as the n-th block of a view: every Text
\* of a view has a content of its own.
Contents == <<"a", "b", "c", "d", "e", "f", "g", "h">>

\* The blocks a container can be given as the n-th block of a view: a
\* Group of one or of two columns, a container that is no Group, an unnamed
\* or a named Text, any other element.
ChildBlocks(n) ==
    {Block("Group", None, <<>>, cols, <<>>) : cols \in {1, 2}}
    \cup {Block("Select", None, <<>>, 0, <<>>),
          Block("Text", None, <<Contents[n]>>, 0, <<>>),
          Block("Text", Some("n"), <<Contents[n]>>, 0, <<>>),
          Block("Elem", None, <<>>, 0, <<>>)}

\* The containers a further block can be added to while a view is written
\* down in document order: the root and, from there, every last child.
RECURSIVE OpenContainers(_, _)
OpenContainers(h, o) ==
    IF ~isContainerBlock(h[o]) THEN {}
    ELSE {o} \cup IF h[o].blocks = <<>> THEN {}
                  ELSE OpenContainers(h, h[o].blocks[Len(h[o].blocks)])

AddBlock(h, parent, b) ==
    [Append(h, b) EXCEPT ![parent].blocks = Append(@, Len(h) + 1)]

(***************************************************************************)
(* visitors.py: running PreProcess over a view, one visit at a time        *)
(***************************************************************************)
\* A frame of stack: the container b being visited, the list x saved by
\* fresh_state, and how many children traverse has handed to visit.
Frame(b, x) == [b |-> b, x |-> x, visited |-> 0]

Self == Machine(heap, current_state, current_text, in_collapsible_group)

Becomes(m) ==
    /\ heap' = m.heap
    /\ current_state' = m.current_state
    /\ current_text' = m.current_text
    /\ in_collapsible_group' = m.in_collapsible_group

Top == stack[Len(stack)]

\* The block handed to visit next: the view itself at first, then the next
\* child of the container being traversed; 0 when that traversal is over.
NextBlock ==
    IF stack = <<>> THEN 0
    ELSE IF Top.visited < Len(heap[Top.b].blocks)
    THEN heap[Top.b].blocks[Top.visited + 1]
    ELSE 0

Advance(st) ==
    IF st = <<>> THEN st ELSE [st EXCEPT ![Len(st)].visited = @ + 1]

\* The view a run starts from: the built view, then the previous root.
Target == IF roots = <<>> THEN 1 ELSE roots[Len(roots)]

\* An empty View, block 1.
InitView ==
    /\ heap = <<Block("View", None, <<>>, 0, <<>>)>>
    /\ original = heap
    /\ current_state = <<>>
    /\ current_text = <<>>
    /\ in_collapsible_group = FALSE
    /\ stack = <<>>
    /\ roots = <<>>
    /\ view_pc = "building"
    /\ request = CHOOSE b \in Bodies : TRUE
    /\ global_rpc_functions = {}
    /\ entries = {}
    /\ response = Pending
    /\ invoked = NoCall
    /\ behaviour = NoBehaviour
    /\ rpc_pc = "idle"
    /\ visitor = ""
    /\ collected = <<>>
    /\ indent = 1
    /\ lines = <<>>

\* The view is built: one more block is put into a container of it.
add_block ==
    /\ view_pc = "building"
    /\ Len(heap) < MaxNodes
    /\ \E parent \in OpenContainers(heap, 1), b \in ChildBlocks(Len(heap) + 1) :
         heap' = AddBlock(heap, parent, b)
    /\ original' = heap'
    /\ UNCHANGED <<current_state, current_text, in_collapsible_group, stack,
                   roots, view_pc>>
    /\ UNCHANGED rpc_vars
    /\ UNCHANGED walk_vars

\* view.accept(PreProcess()): a new visitor visits the View, the one built
\* or, for a second run, the root the first run gave.
accept ==
    /\ \/ view_pc = "building"
       \/ view_pc = "done" /\ Len(roots) < 2
    /\ LET m == visit_ContainerBlock_enter(Machine(heap, <<>>, <<>>, FALSE), Target)
       IN  /\ Becomes(m)
           /\ stack' = <<Frame(Target, <<>>)>>
    /\ view_pc' = "visiting"
    /\ UNCHANGED <<original, roots>>
    /\ UNCHANGED rpc_vars
    /\ UNCHANGED walk_vars

\* traverse hands a block that is no Text and no container to visit.
visit_element ==
    /\ view_pc = "visiting"
    /\ NextBlock # 0
    /\ ~isText(heap[NextBlock])
    /\ ~isContainerBlock(heap[NextBlock])
    /\ Becomes(visit_BaseElement(Self, NextBlock))
    /\ stack' = Advance(stack)
    /\ UNCHANGED <<original, roots, view_pc>>
    /\ UNCHANGED rpc_vars
    /\ UNCHANGED walk_vars

\* traverse hands a Text to visit.
visit_text ==
    /\ view_pc = "visiting"
    /\ NextBlock # 0
    /\ isText(heap[NextBlock])
    /\ Becomes(visit_Text(Self, NextBlock))
    /\ stack' = Advance(stack)
    /\ UNCHANGED <<original, roots, view_pc>>
    /\ UNCHANGED rpc_vars
    /\ UNCHANGED walk_vars

\* traverse hands a container to visit, which starts traversing it.
visit_container ==
    /\ view_pc = "visiting"
    /\ NextBlock # 0
    /\ isContainerBlock(heap[NextBlock])
    /\ Becomes(visit_ContainerBlock_enter(Self, NextBlock))
    /\ stack' = Append(Advance(stack),
                       Frame(NextBlock, merge_text(Self).current_state))
    /\ UNCHANGED <<original, roots, view_pc>>
    /\ UNCHANGED rpc_vars
    /\ UNCHANGED walk_vars

\* The traversal of the innermost container is over: its visit finishes.
leave_container ==
    /\ view_pc = "visiting"
    /\ stack # <<>>
    /\ NextBlock = 0
    /\ LET m == visit_ContainerBlock_exit(Self, Top.b, Top.x)
       IN  /\ Becomes(m)
           /\ stack' = SubSeq(stack, 1, Len(stack) - 1)
           /\ IF Len(stack) = 1
              THEN /\ view_pc' = "done"
                   /\ roots' = Append(roots, m.current_state[1])
              ELSE UNCHANGED <<view_pc, roots>>
    /\ UNCHANGED original
    /\ UNCHANGED rpc_vars
    /\ UNCHANGED walk_vars

NextView ==
    \/ add_block
    \/ accept
    \/ visit_element
    \/ visit_text
    \/ visit_container
    \/ leave_container

SpecView == InitView /\ [][NextView]_vars

(***************************************************************************)
(* visitors.py: properties of PreProcess                                   *)
(***************************************************************************)
\* The first run over the built view is over; its result is roots[1].
Done1 == view_pc = "done" /\ Len(roots) = 1

\* The second run, over roots[1], is over; its result is roots[2].
Done2 == view_pc = "done" /\ Len(roots) = 2

ContainersOf(h, blocks) == SelectSeq(blocks, LAMBDA o : isContainerBlock(h[o]))

\* The containers of the built view, each with the container of the
\* result that stands in its place: the roots, and from each pair the
\* container children of the two, taken in order.
RECURSIVE Pairs(_, _)
Pairs(c, c1) ==
    LET ins == ContainersOf(original, original[c].blocks)
        outs == ContainersOf(heap, heap[c1].blocks)
        n == IF Len(ins) < Len(outs) THEN Len(ins) ELSE Len(outs)
    IN  {<<c, c1>>} \cup UNION {Pairs(ins[i], outs[i]) : i \in 1..n}

\* A child list as a reader of its unnamed texts sees it: each unnamed
\* Text with its content, any other child as a mere separator.
TextsOf(h, blocks) ==
    [i \in 1..Len(blocks) |->
        IF isUnnamedText(h[blocks[i]])
        THEN [text |-> TRUE, content |-> h[blocks[i]].content]
        ELSE [text |-> FALSE, content |-> <<>>]]

\* Such a list with every run of neighbouring texts made one text, the
\* contents joined by a double line break.
RECURSIVE MergeRuns(_)
MergeRuns(items) ==
    IF Len(items) < 2 THEN items
    ELSE IF items[1].text /\ items[2].text
    THEN MergeRuns(<<[text |-> TRUE,
                      content |-> items[1].content \o <<"\n\n">> \o items[2].content]>>
                   \o Tail(Tail(items)))
    ELSE <<items[1]>> \o MergeRuns(Tail(items))

\* C7: in the root View and in every Group of one column, each maximal run
\* of neighbouring unnamed Texts comes out as one unnamed Text, its content
\* the run's contents joined by a double line break, whatever the siblings.
C7_RunsMergedInCollapsible ==
    Done1 =>
        \A p \in Pairs(1, roots[1]) :
            collapsible(original[p[1]]) =>
                TextsOf(heap, heap[p[2]].blocks)
                    = MergeRuns(TextsOf(original, original[p[1]].blocks))

\* C8: in every Group whose column count is not 1, each unnamed Text comes
\* out as a Text of its own with its content, in order, whatever the
\* siblings.
C8_TextsKeptApartInColumns ==
    Done1 =>
        \A p \in Pairs(1, roots[1]) :
            (original[p[1]].kind = "Group" /\ original[p[1]].columns # 1) =>
                TextsOf(heap, heap[p[2]].blocks)
                    = TextsOf(original, original[p[1]].blocks)

\* C9: PreProcess leaves its input as it was: once the view has been
\* visited every block of it has the child list and the field values it was
\* built with, and no container of the result is the container of the view
\* it stands for.
C9_InputUnmodified ==
    Done1 =>
        /\ \A o \in 1..Len(original) : heap[o] = original[o]
        /\ \A p \in Pairs(1, roots[1]) : p[2] # p[1]

C9_Witness ==
    /\ Done1
    /\ \E g \in 2..Len(original) :
          /\ isContainerBlock(original[g])
          /\ original[g].blocks # <<>>
    /\ \E o \in 1..Len(heap) : Len(heap[o].content) > 1

\* A block and all below it, by value.
RECURSIVE Tree(_, _)
Tree(h, o) ==
    [kind |-> h[o].kind, name |-> h[o].name, content |-> h[o].content,
     columns |-> h[o].columns,
     blocks |-> [i \in 1..Len(h[o].blocks) |-> Tree(h, h[o].blocks[i])]]

\* No container of the built view holds two neighbouring unnamed Texts.
Normalized ==
    \A o \in 1..Len(original) :
        \A i \in 1..(Len(original[o].blocks) - 1) :
            ~(/\ isUnnamedText(original[original[o].blocks[i]])
              /\ isUnnamedText(original[original[o].blocks[i + 1]]))

\* C10: a view without neighbouring unnamed Texts comes out of PreProcess
\* equal in structure to what went in, and so does that result when it is
\* preprocessed again.
C10_Idempotent ==
    (Done2 /\ Normalized) =>
        /\ Tree(heap, roots[1]) = Tree(original, 1)
        /\ Tree(heap, roots[2]) = Tree(heap, roots[1])

C10_Witness ==
    /\ Done2
    /\ Normalized
    /\ \E o \in 1..Len(original) :
          isUnnamedText(original[o]) /\ o \in {original[1].blocks[i] : i \in 1..Len(original[1].blocks)}
    /\ \E g \in 2..Len(original) :
          /\ isContainerBlock(original[g])
          /\ \E i \in 1..Len(original[g].blocks) :
                isText(original[original[g].blocks[i]])

\* The children of a container that are no unnamed Text, each by class,
\* name and content, in order.
Barriers(h, blocks) ==
    LET kept == SelectSeq(blocks, LAMBDA o : ~isUnnamedText(h[o]))
    IN  [i \in 1..Len(kept) |->
            [kind |-> h[kept[i]].kind, name |-> h[kept[i]].name,
             content |-> h[kept[i]].content]]

\* The blocks made by the first run.
Made == (Len(original) + 1)..Len(heap)

\* Text u of the built view has its content in block t.
ContributesTo(u, t) ==
    \E k \in 1..Len(heap[t].content) : <<heap[t].content[k]>> = original[u].content

\* C15: every named Text of the view comes out as a Text of its own with
\* its name and content, in its place among the children that are no
\* unnamed Text; and two unnamed Texts with a named Text, a non-text
\* element or a container between them in their parent's child list never
\* have their contents in one Text of the result.
C15_NamedTextBreaksRun ==
    Done1 =>
        \A p \in Pairs(1, roots[1]) :
            LET ins == original[p[1]].blocks
            IN  /\ Barriers(heap, heap[p[2]].blocks) = Barriers(original, ins)
                /\ \A i, j \in 1..Len(ins) :
                      (/\ i < j
                       /\ isUnnamedText(original[ins[i]])
                       /\ isUnnamedText(original[ins[j]])
                       /\ \E k \in (i + 1)..(j - 1) : ~isUnnamedText(original[ins[k]]))
                      => \A t \in Made :
                            ~(ContributesTo(ins[i], t) /\ ContributesTo(ins[j], t))

\* The View holds an unnamed, a named and an unnamed Text in a row, and
\* the result has as many children as the View.
C15_Witness ==
    /\ Done1
    /\ \E i \in 1..(Len(original[1].blocks) - 2) :
          /\ isUnnamedText(original[original[1].blocks[i]])
          /\ isText(original[original[1].blocks[i + 1]])
          /\ ~isUnnamedText(original[original[1].blocks[i + 1]])
          /\ isUnnamedText(original[original[1].blocks[i + 2]])
    /\ Len(heap[roots[1]].blocks) = Len(original[1].blocks)

\* C16: the flag belongs to the scope: while texts are pending,
\* in_collapsible_group is the collapsibility of the container whose
\* children are being built (they are flushed under the flag as it is
\* then: visiting an unnamed Text changes neither the flag nor the
\* container), so after a nested container's visit the flag is back to
\* what it was for the parent.
C16_FlagPerScope ==
    (view_pc = "visiting" /\ current_text # <<>>) =>
        in_collapsible_group = collapsible(heap[Top.b])

\* A step that starts the visit of a container nested in another.
Enters == view_pc = "visiting" /\ Len(stack') = Len(stack) + 1

\* A step that ends the visit of a container.
Leaves == view_pc = "visiting" /\ Len(stack') = Len(stack) - 1

\* The visit ends with nothing pending and with the list saved at its
\* start, every element as it was, followed by the new copy of the
\* container; the copy of the View is the one element at top level, and it
\* is root.
EndsWithOneMore ==
    Leaves =>
        /\ current_text' = <<>>
        /\ Len(current_state') = Len(Top.x) + 1
        /\ SubSeq(current_state', 1, Len(Top.x)) = Top.x
        /\ \A o \in 1..Len(heap) : heap'[o] = heap[o]
        /\ current_state'[Len(current_state')] > Len(heap)
        /\ heap'[current_state'[Len(current_state')]].kind = heap[Top.b].kind
        /\ heap'[current_state'[Len(current_state')]].blocks = merge_text(Self).current_state
        /\ Len(stack) = 1 =>
              /\ Len(current_state') = 1
              /\ roots' = Append(roots, current_state'[1])

\* What the flush of the pending texts adds to a list: nothing when none
\* is pending, one new Text of the joined contents under the flag, a copy
\* of each pending Text otherwise.
IsFlush(added) ==
    /\ \A i \in 1..Len(added) : added[i] > Len(heap)
    /\ IF current_text = <<>> THEN added = <<>>
       ELSE IF in_collapsible_group
       THEN /\ Len(added) = 1
            /\ isUnnamedText(heap'[added[1]])
            /\ heap'[added[1]].content =
                  join([i \in 1..Len(current_text) |-> heap[current_text[i]].content])
       ELSE /\ Len(added) = Len(current_text)
            /\ \A i \in 1..Len(added) : heap'[added[i]] = heap[current_text[i]]

\* C17 as stated: every visit of a container, texts pending at its start
\* or not, ends with nothing pending and with the enclosing current_state,
\* as it was when the visit started, extended by exactly one element, the
\* new copy of the container; so the top-level current_state ends with one
\* element, which root returns.
C17_ScopeExtendedByOne ==
    [][/\ Enters => stack'[Len(stack')].x = current_state
       /\ EndsWithOneMore]_vars

\* C17 amended: the list saved for the enclosing scope when a container's
\* visit starts is the enclosing current_state followed by the flush of
\* the texts pending then, and the visit ends with nothing pending and
\* that list extended by exactly one element, the new copy of the
\* container.
C17_ScopeExtendedByFlushAndOne ==
    [][/\ Enters =>
             /\ Len(stack'[Len(stack')].x) >= Len(current_state)
             /\ SubSeq(stack'[Len(stack')].x, 1, Len(current_state)) = current_state
             /\ IsFlush(SubSeq(stack'[Len(stack')].x, Len(current_state) + 1,
                               Len(stack'[Len(stack')].x)))
             /\ current_text' = <<>>
             /\ current_state' = <<>>
       /\ EndsWithOneMore]_vars

\* The visit of a Group met with a Text pending has just ended: the scope
\* of the View holds the flushed Text and then the copy of the Group.
C17_Witness ==
    /\ view_pc = "visiting"
    /\ Len(stack) = 1
    /\ Top.visited = 2
    /\ isUnnamedText(original[original[1].blocks[1]])
    /\ original[original[1].blocks[2]].kind = "Group"
    /\ original[original[1].blocks[2]].blocks # <<>>
    /\ current_text = <<>>
    /\ Len(current_state) = 2
    /\ isUnnamedText(heap[current_state[1]])
    /\ heap[current_state[2]].kind = "Group"

\* The contents of an unnamed Text, one for each part between the double
\* line breaks (a content of the views checked is one part).
Parts(content) == SelectSeq(content, LAMBDA tok : tok # "\n\n")

RECURSIVE Flatten(_)
Flatten(seqs) == IF seqs = <<>> THEN <<>> ELSE Head(seqs) \o Flatten(Tail(seqs))

\* A block and all below it by value, every unnamed Text replaced by one
\* unnamed Text for each part of its content.
RECURSIVE Skeleton(_, _)
Skeleton(h, o) ==
    IF isUnnamedText(h[o])
    THEN [i \in 1..Len(Parts(h[o].content)) |->
             [kind |-> "Text", name |-> None, content |-> <<Parts(h[o].content)[i]>>,
              columns |-> 0, blocks |-> <<>>]]
    ELSE <<[kind |-> h[o].kind, name |-> h[o].name, content |-> h[o].content,
            columns |-> h[o].columns,
            blocks |-> Flatten([i \in 1..Len(h[o].blocks) |->
                                   Skeleton(h, h[o].blocks[i])])]>>

\* C18: nothing is lost, doubled or moved: with every merged Text split at
\* the double line breaks, the result is the view: the same containers in
\* the same nesting, and in each of them the same elements, named Texts and
\* unnamed text contents in the same order, each once.
C18_NothingLostOrMoved ==
    Done1 => Skeleton(heap, roots[1]) = Skeleton(original, 1)

\* Two Texts of the View have become one, and a Group holds a Text too.
C18_Witness ==
    /\ Done1
    /\ \E i \in 1..Len(heap[roots[1]].blocks) :
          Len(Parts(heap[heap[roots[1]].blocks[i]].content)) = 2
    /\ \E g \in 2..Len(original) :
          /\ original[g].kind = "Group"
          /\ \E i \in 1..Len(original[g].blocks) :
                isUnnamedText(original[original[g].blocks[i]])

(***************************************************************************)
(* visitors.py: CollectFunctions and PrettyPrinter                         *)
(*                                                                         *)
(* The views these two walk hold Function blocks.  A block here has the    *)
(* fields the two visitors read: kind, blocks and, for a Function,         *)
(* function_id, function, controls, cache and swap.                        *)
(***************************************************************************)
\* The n-th block of such a view.  A Function's handle and controls are its
\* own, so that two Functions of one identifier can be told apart.
WalkBlock(kind, function_id, n) ==
    [kind |-> kind, blocks |-> <<>>, function_id |-> function_id,
     function |-> IF kind = "Function" THEN Contents[n] ELSE "",
     controls |-> IF kind = "Function" THEN Contents[n] ELSE "",
     cache |-> kind = "Function" /\ n % 2 = 0,
     swap |-> IF kind = "Function" THEN "replace" ELSE ""]

WalkChildBlocks(n) ==
    {WalkBlock("Group", "", n), WalkBlock("Elem", "", n),
     WalkBlock("Function", "a", n), WalkBlock("Function", "b", n)}

\* FunctionRef(f=.., f_id=.., controls=.., cache=.., swap=..)
FunctionRef(f, f_id, controls, cache, swap) ==
    [f |-> f, f_id |-> f_id, controls |-> controls, cache |-> cache,
     swap |-> swap]

\* d[k] = v on a dict
set_item(d, k, v) ==
    [key \in DOMAIN d \cup {k} |-> IF key = k THEN v ELSE d[key]]

\* visit_Function that keeps the entry an identifier already has.
CollectFunctions_visit_Function_keeps_first(e, b) ==
    IF b.function_id \in DOMAIN e THEN e
    ELSE set_item(e, b.function_id,
                  FunctionRef(b.function, b.function_id, b.controls, b.cache, b.swap))

\* CollectFunctions.visit(b: Function)
CollectFunctions_visit_Function(e, b) ==
    set_item(e, b.function_id,
             FunctionRef(b.function, b.function_id, b.controls, b.cache, b.swap))

\* CollectFunctions.visit(b: BaseElement)
CollectFunctions_visit_BaseElement(e, b) == e

\* PrettyPrinter: print("|", "-" * self.indent, str(b), sep="")
print_line(out, i, b) == Append(out, [b |-> b, indent |-> i])

\* line 45
indent_more(i) == i + 2

\* line 47 taking back less than line 45 added.
indent_less_by_one(i) == i - 1

\* line 47
indent_less(i) == i - 2

InitWalk ==
    /\ heap = <<WalkBlock("View", "", 1)>>
    /\ original = <<>>
    /\ current_state = <<>>
    /\ current_text = <<>>
    /\ in_collapsible_group = FALSE
    /\ stack = <<>>
    /\ roots = <<>>
    /\ view_pc = "building"
    /\ visitor = ""
    /\ collected = <<>>
    /\ indent = 1
    /\ lines = <<>>
    /\ request = CHOOSE b \in Bodies : TRUE
    /\ global_rpc_functions = {}
    /\ entries = {}
    /\ response = Pending
    /\ invoked = NoCall
    /\ behaviour = NoBehaviour
    /\ rpc_pc = "idle"

WalkUnchanged ==
    /\ UNCHANGED <<original, current_state, current_text, in_collapsible_group, roots>>
    /\ UNCHANGED rpc_vars

\* The view is built: one more block is put into a container of it.
add_walk_block ==
    /\ view_pc = "building"
    /\ Len(heap) < MaxNodes
    /\ \E parent \in OpenContainers(heap, 1), b \in WalkChildBlocks(Len(heap) + 1) :
         heap' = AddBlock(heap, parent, b)
    /\ UNCHANGED <<stack, view_pc>>
    /\ UNCHANGED walk_vars
    /\ WalkUnchanged

\* The visit of the innermost container is over; the walk with it when
\* that container is the view.
Returned_from(st) ==
    /\ stack' = SubSeq(st, 1, Len(st) - 1)
    /\ view_pc' = IF Len(st) = 1 THEN "done" ELSE "visiting"

\* view.accept(CollectFunctions()): visit(View) traverses the view.
collect_accept ==
    /\ view_pc = "building"
    /\ visitor' = "CollectFunctions"
    /\ collected' = <<>>
    /\ stack' = <<Frame(1, <<>>)>>
    /\ view_pc' = "visiting"
    /\ UNCHANGED <<heap, indent, lines>>
    /\ WalkUnchanged

collect_function ==
    /\ view_pc = "visiting" /\ visitor = "CollectFunctions"
    /\ NextBlock # 0
    /\ heap[NextBlock].kind = "Function"
    /\ collected' = CollectFunctions_visit_Function(collected, heap[NextBlock])
    /\ stack' = Advance(stack)
    /\ UNCHANGED <<heap, view_pc, visitor, indent, lines>>
    /\ WalkUnchanged

collect_element ==
    /\ view_pc = "visiting" /\ visitor = "CollectFunctions"
    /\ NextBlock # 0
    /\ heap[NextBlock].kind = "Elem"
    /\ collected' = CollectFunctions_visit_BaseElement(collected, heap[NextBlock])
    /\ stack' = Advance(stack)
    /\ UNCHANGED <<heap, view_pc, visitor, indent, lines>>
    /\ WalkUnchanged

\* CollectFunctions.visit(b: ContainerBlock): b.traverse(self)
collect_container ==
    /\ view_pc = "visiting" /\ visitor = "CollectFunctions"
    /\ NextBlock # 0
    /\ isContainerBlock(heap[NextBlock])
    /\ stack' = Append(Advance(stack), Frame(NextBlock, <<>>))
    /\ UNCHANGED <<heap, view_pc, visitor, collected, indent, lines>>
    /\ WalkUnchanged

collect_return ==
    /\ view_pc = "visiting" /\ visitor = "CollectFunctions"
    /\ stack # <<>>
    /\ NextBlock = 0
    /\ Returned_from(stack)
    /\ UNCHANGED <<heap, visitor, collected, indent, lines>>
    /\ WalkUnchanged

\* view.accept(PrettyPrinter()): visit(View) prints the view's line and
\* starts on its children.
print_accept ==
    /\ view_pc = "building"
    /\ visitor' = "PrettyPrinter"
    /\ lines' = print_line(<<>>, 1, 1)
    /\ indent' = indent_more(1)
    /\ stack' = <<Frame(1, <<>>)>>
    /\ view_pc' = "visiting"
    /\ UNCHANGED <<heap, collected>>
    /\ WalkUnchanged

\* PrettyPrinter.visit(b: BaseElement)
print_element ==
    /\ view_pc = "visiting" /\ visitor = "PrettyPrinter"
    /\ NextBlock # 0
    /\ ~isContainerBlock(heap[NextBlock])
    /\ lines' = print_line(lines, indent, NextBlock)
    /\ stack' = Advance(stack)
    /\ UNCHANGED <<heap, view_pc, visitor, collected, indent>>
    /\ WalkUnchanged

\* PrettyPrinter.visit(b: ContainerBlock), lines 44-46
print_container ==
    /\ view_pc = "visiting" /\ visitor = "PrettyPrinter"
    /\ NextBlock # 0
    /\ isContainerBlock(heap[NextBlock])
    /\ lines' = print_line(lines, indent, NextBlock)
    /\ indent' = indent_more(indent)
    /\ stack' = Append(Advance(stack), Frame(NextBlock, <<>>))
    /\ UNCHANGED <<heap, view_pc, visitor, collected>>
    /\ WalkUnchanged

\* PrettyPrinter.visit(b: ContainerBlock), line 47
print_return ==
    /\ view_pc = "visiting" /\ visitor = "PrettyPrinter"
    /\ stack # <<>>
    /\ NextBlock = 0
    /\ indent' = indent_less(indent)
    /\ Returned_from(stack)
    /\ UNCHANGED <<heap, visitor, collected, lines>>
    /\ WalkUnchanged

NextWalk ==
    \/ add_walk_block
    \/ collect_accept
    \/ collect_function
    \/ collect_element
    \/ collect_container
    \/ collect_return
    \/ print_accept
    \/ print_element
    \/ print_container
    \/ print_return

SpecWalk == InitWalk /\ [][NextWalk]_vars

(***************************************************************************)
(* visitors.py: properties of CollectFunctions and PrettyPrinter           *)
(***************************************************************************)
Collected == visitor = "CollectFunctions" /\ view_pc = "done"

\* The Function blocks of the view; the blocks are numbered in the order a
\* depth-first, child-order traversal reaches them.
Functions == {o \in 1..Len(heap) : heap[o].kind = "Function"}

\* The last Function block of identifier k in that order.
LastFunction(k) ==
    CHOOSE o \in Functions :
        /\ heap[o].function_id = k
        /\ \A o2 \in Functions : heap[o2].function_id = k => o2 <= o

\* C11: after CollectFunctions has visited a view, entries has exactly the
\* identifiers of the view's Function blocks as keys, and each key maps to
\* the FunctionRef of the last Function block of that identifier in
\* depth-first order.
C11_RegistryLastWriteWins ==
    Collected =>
        /\ DOMAIN collected = {heap[o].function_id : o \in Functions}
        /\ \A k \in DOMAIN collected :
              collected[k] = [f |-> heap[LastFunction(k)].function,
                              f_id |-> k,
                              controls |-> heap[LastFunction(k)].controls,
                              cache |-> heap[LastFunction(k)].cache,
                              swap |-> heap[LastFunction(k)].swap]

\* Functions "a", "b", "a" in traversal order, the first below a Group.
C11_Witness ==
    /\ Collected
    /\ DOMAIN collected = {"a", "b"}
    /\ \E o1, o2, o3 \in Functions :
          /\ o1 < o2 /\ o2 < o3
          /\ heap[o1].function_id = "a"
          /\ heap[o2].function_id = "b"
          /\ heap[o3].function_id = "a"
          /\ \E g \in 2..Len(heap) :
                /\ heap[g].kind = "Group"
                /\ o1 \in {heap[g].blocks[i] : i \in 1..Len(heap[g].blocks)}
          /\ o3 \in {heap[1].blocks[i] : i \in 1..Len(heap[1].blocks)}

\* The number of containers around block o.
RECURSIVE Enclosing(_)
Enclosing(o) ==
    IF o = 1 THEN 0
    ELSE 1 + Enclosing(CHOOSE p \in 1..Len(heap) :
                           \E i \in 1..Len(heap[p].blocks) : heap[p].blocks[i] = o)

\* C12: PrettyPrinter prints each element with indent 1 + 2 * (number of
\* containers around it), and when the visit of a container has returned
\* indent is what it was before that visit: 1 + 2 * (number of containers
\* whose visit is still going on).
C12_IndentFollowsDepth ==
    visitor = "PrettyPrinter" =>
        /\ \A i \in 1..Len(lines) : lines[i].indent = 1 + 2 * Enclosing(lines[i].b)
        /\ indent = 1 + 2 * Len(stack)

\* A child under three nested containers, then a sibling of the second
\* container printed after it.
C12_Witness ==
    /\ visitor = "PrettyPrinter"
    /\ view_pc = "done"
    /\ indent = 1
    /\ \E i, j, k \in 1..Len(lines) :
          /\ i < j /\ j < k
          /\ isContainerBlock(heap[lines[i].b])
          /\ lines[i].indent = 3
          /\ lines[j].indent = 7
          /\ lines[k].indent = 3

====
